---- MODULE Spec2Model ----
(***************************************************************************)
(* Model of src/app.py: the Google Scholar profile extractor, the Scopus   *)
(* search normaliser, the two batch loops of /combined-scrape and the      *)
(* rate limiter wrapped around make_request.                               *)
(*                                                                         *)
(* Text is a sequence of tokens (one-character strings; a literal of the   *)
(* program is a single token).  An optional value (Python None) is the     *)
(* empty sequence, a present value x is <<x>>.                             *)
(***************************************************************************)
EXTENDS Integers, Sequences, FiniteSets, TLC

(***************************************************************************)
(* Optional values and text                                                *)
(***************************************************************************)
None == <<>>
Some(x) == <<x>>
IsNone(o) == o = <<>>
Val(o) == o[1]

DigitVal == [c \in {"0", "1", "2", "3", "4", "5", "6", "7", "8", "9"} |->
               CASE c = "0" -> 0 [] c = "1" -> 1 [] c = "2" -> 2 [] c = "3" -> 3
                 [] c = "4" -> 4 [] c = "5" -> 5 [] c = "6" -> 6 [] c = "7" -> 7
                 [] c = "8" -> 8 [] c = "9" -> 9]
DigitChar == <<"0", "1", "2", "3", "4", "5", "6", "7", "8", "9">>
IsDigitTok(c) == c \in DOMAIN DigitVal
IsSpace(c) == c = " "

\* str.strip(): drop leading and trailing whitespace
RECURSIVE LStrip(_)
LStrip(s) == IF s # <<>> /\ IsSpace(Head(s)) THEN LStrip(Tail(s)) ELSE s
RECURSIVE RStrip(_)
RStrip(s) == IF s # <<>> /\ IsSpace(s[Len(s)]) THEN RStrip(SubSeq(s, 1, Len(s) - 1)) ELSE s
Strip(s) == RStrip(LStrip(s))

\* str.isdigit(): non-empty and every character a digit
IsDigit(s) == s # <<>> /\ \A i \in 1..Len(s) : IsDigitTok(s[i])

RECURSIVE DigitsValue(_)
DigitsValue(s) == IF s = <<>> THEN 0
                  ELSE 10 * DigitsValue(SubSeq(s, 1, Len(s) - 1)) + DigitVal[s[Len(s)]]

\* int(s): surrounding whitespace and one sign are accepted; anything else
\* raises ValueError.  The result is [ok, val] or [ok, err].
IntParse(s) ==
  LET t == Strip(s)
      signed == t # <<>> /\ Head(t) \in {"-", "+"}
      body == IF signed THEN Tail(t) ELSE t
  IN IF IsDigit(body)
       THEN [ok |-> TRUE,
             val |-> IF signed /\ Head(t) = "-" THEN 0 - DigitsValue(body)
                     ELSE DigitsValue(body)]
       ELSE [ok |-> FALSE,
             err |-> <<"invalid literal for int() with base 10: ">> \o t]

\* str(n) for an integer
RECURSIVE NatToText(_)
NatToText(n) == IF n < 10 THEN <<DigitChar[n + 1]>>
                ELSE NatToText(n \div 10) \o <<DigitChar[(n % 10) + 1]>>
IntToText(n) == IF n < 0 THEN <<"-">> \o NatToText(0 - n) ELSE NatToText(n)

\* Python truthiness of an optional integer: None and 0 are false
Truthy(o) == ~IsNone(o) /\ Val(o) # 0

(***************************************************************************)
(* Python dict with insertion order: a sequence of <<key, value>>          *)
(***************************************************************************)
DictHas(d, k) == \E i \in 1..Len(d) : d[i][1] = k
DictSet(d, k, v) ==
  IF DictHas(d, k)
    THEN [i \in 1..Len(d) |-> IF d[i][1] = k THEN <<k, v>> ELSE d[i]]
    ELSE Append(d, <<k, v>>)

(***************************************************************************)
(* Profile extractor: GoogleScholarScraper.get_data_from_profile_link      *)
(*                                                                         *)
(* A response to requests.get is [kind |-> "raise", msg] (the call, or the *)
(* parser, raised) or [kind |-> "http", status, doc].  A document is       *)
(*   [name  : optional text           (div#gsc_prf_in),                    *)
(*    cells : sequence of text        (td.gsc_rsb_std),                    *)
(*    graph : BOOLEAN                 (div#gsc_rsb_cit present),           *)
(*    bars, vals : sequences of text  (span.gsc_g_t, span.gsc_g_al),       *)
(*    rows  : sequence of [anchor : optional [text, href : optional text], *)
(*                         cites : optional text, year : optional text]]   *)
(***************************************************************************)
HTTP_OK == 200

Ok(v) == [ok |-> TRUE, val |-> v]
Raise(m) == [ok |-> FALSE, err |-> m]

\* the except branch answering with an empty dict
ExceptionRecord_Empty(msg) == <<>>

\* line 119: return {'error': str(e)}
ExceptionRecord(msg) == [error |-> msg]

\* the status branch answering with the sentinels of an empty profile as well
StatusErrorRecord_WithDefaults(status) ==
  [error |-> <<"Failed to retrieve data. Status code: ">> \o IntToText(status),
   Name |-> <<"Name not found">>, Papers |-> <<>>]

\* line 117: return {'error': f'Failed to retrieve data. Status code: {status}'}
StatusErrorRecord(status) ==
  [error |-> <<"Failed to retrieve data. Status code: ">> \o IntToText(status)]

\* lines 49-50
ExtractName(doc) ==
  IF ~IsNone(doc.name) THEN Strip(Val(doc.name)) ELSE <<"Name not found">>

\* lines 52-58: [citations, h_index, i10_index], or the ValueError of int()
ExtractMetrics(doc) ==
  LET t == doc.cells
  IN IF Len(t) >= 3
       THEN LET c == IF t[1] # <<>> THEN IntParse(Strip(t[1])) ELSE Ok(0)
                h == IF t[2] # <<>> THEN Strip(t[2]) ELSE <<"H-Index not found">>
                i == IF t[3] # <<>> THEN Strip(t[3]) ELSE <<"i10-Index not found">>
            IN IF c.ok THEN Ok([citations |-> c.val, h_index |-> h, i10_index |-> i])
               ELSE Raise(c.err)
       ELSE Ok([citations |-> 0, h_index |-> <<"H-Index not found">>,
                i10_index |-> <<"i10-Index not found">>])

\* the test written "is not None" for both bounds
YearlyFilterOn_NotNone(start_year, end_year) == ~IsNone(start_year) /\ ~IsNone(end_year)

\* line 69: if start_year and end_year
YearlyFilterOn(start_year, end_year) == Truthy(start_year) /\ Truthy(end_year)

\* the comparison written with strict bounds
InRange_Exclusive(year, start_year, end_year) ==
  Val(start_year) < year /\ year < Val(end_year)

\* line 70: start_year <= year <= end_year
InRange(year, start_year, end_year) ==
  Val(start_year) <= year /\ year <= Val(end_year)

\* lines 66-73: one zip() pair after another; int() of a label or of a value
\* raises and leaves the loop
RECURSIVE ChartLoop(_, _, _, _, _, _)
ChartLoop(bars, vals, i, acc, start_year, end_year) ==
  IF i > Len(bars) \/ i > Len(vals) THEN Ok(acc)
  ELSE LET y == IntParse(Strip(bars[i]))
           c == IntParse(Strip(vals[i]))
       IN IF ~y.ok THEN Raise(y.err)
          ELSE IF ~c.ok THEN Raise(c.err)
          ELSE IF YearlyFilterOn(start_year, end_year)
            THEN IF InRange(y.val, start_year, end_year)
                   THEN ChartLoop(bars, vals, i + 1,
                                  DictSet(acc, IntToText(y.val), c.val),
                                  start_year, end_year)
                   ELSE ChartLoop(bars, vals, i + 1, acc, start_year, end_year)
            ELSE ChartLoop(bars, vals, i + 1,
                           DictSet(acc, IntToText(y.val), c.val),
                           start_year, end_year)

\* lines 60-73
ExtractYearly(doc, start_year, end_year) ==
  IF doc.graph THEN ChartLoop(doc.bars, doc.vals, 1, <<>>, start_year, end_year)
  ELSE Ok(<<>>)

\* lines 85-86: the year of a row, None unless the stripped text is all digits
PaperYear(row) ==
  IF ~IsNone(row.year) /\ IsDigit(Strip(Val(row.year)))
    THEN Some(IntParse(Strip(Val(row.year))).val)
    ELSE None

\* lines 78-86, 91-96: the record of one row; title_element['href'] raises
\* KeyError when the anchor carries no href
PaperRecord(row) ==
  LET a == row.anchor
      title == IF ~IsNone(a) THEN Val(a).text ELSE <<"No Title">>
      cites == IF ~IsNone(row.cites) /\ Val(row.cites) # <<>>
                 THEN Strip(Val(row.cites)) ELSE <<"0">>
  IN IF ~IsNone(a) /\ IsNone(Val(a).href) THEN Raise(<<"'href'">>)
     ELSE Ok([title |-> title,
              link |-> IF ~IsNone(a)
                         THEN <<"https://scholar.google.com">> \o Val(Val(a).href)
                         ELSE <<"#">>,
              citations |-> cites,
              year |-> PaperYear(row)])

\* line 89: if start_year and end_year
PaperFilterOn(start_year, end_year) == Truthy(start_year) /\ Truthy(end_year)

\* line 90: if year and start_year <= year <= end_year
PaperInRange(year, start_year, end_year) ==
  Truthy(year) /\ InRange(Val(year), start_year, end_year)

\* lines 75-103
RECURSIVE PaperLoop(_, _, _, _, _)
PaperLoop(rows, i, acc, start_year, end_year) ==
  IF i > Len(rows) THEN Ok(acc)
  ELSE LET p == PaperRecord(rows[i])
       IN IF ~p.ok THEN Raise(p.err)
          ELSE IF PaperFilterOn(start_year, end_year)
            THEN IF PaperInRange(p.val.year, start_year, end_year)
                   THEN PaperLoop(rows, i + 1, Append(acc, p.val), start_year, end_year)
                   ELSE PaperLoop(rows, i + 1, acc, start_year, end_year)
            ELSE PaperLoop(rows, i + 1, Append(acc, p.val), start_year, end_year)

ExtractPapers(doc, start_year, end_year) ==
  PaperLoop(doc.rows, 1, <<>>, start_year, end_year)

\* lines 44-119: the whole method, given what requests.get answered
get_data_from_profile_link(resp, start_year, end_year) ==
  IF resp.kind = "raise" THEN ExceptionRecord(resp.msg)
  ELSE IF resp.status # HTTP_OK THEN StatusErrorRecord(resp.status)
  ELSE LET m == ExtractMetrics(resp.doc)
           y == ExtractYearly(resp.doc, start_year, end_year)
           p == ExtractPapers(resp.doc, start_year, end_year)
       IN IF ~m.ok THEN ExceptionRecord(m.err)
          ELSE IF ~y.ok THEN ExceptionRecord(y.err)
          ELSE IF ~p.ok THEN ExceptionRecord(p.err)
          ELSE [Name |-> ExtractName(resp.doc),
                Citations |-> m.val.citations,
                H_Index |-> m.val.h_index,
                i10_Index |-> m.val.i10_index,
                Yearly_Citations |-> y.val,
                Papers |-> p.val]

(***************************************************************************)
(* Search path: make_request and scopus_scrape_internal                    *)
(*                                                                         *)
(* A Python value decoded from JSON is [t, v]: t is "none" (JSON null),    *)
(* "obj" (v a function from keys to values), "arr" (v a sequence), "str"   *)
(* (v a text) or "num" (v an integer).                                     *)
(***************************************************************************)
PyNone == [t |-> "none", v |-> <<>>]
JObj(f) == [t |-> "obj", v |-> f]
JArr(s) == [t |-> "arr", v |-> s]
JStr(s) == [t |-> "str", v |-> s]
EmptyObj == JObj(<<>>)

\* truth value of a Python value: None, {}, [], "" and 0 are false
PyTruthy(x) ==
  CASE x.t = "none" -> FALSE
    [] x.t = "obj" -> DOMAIN x.v # {}
    [] x.t = "arr" -> x.v # <<>>
    [] x.t = "str" -> x.v # <<>>
    [] x.t = "num" -> x.v # 0

\* dict.get(key, default)
JGet(o, key, default) == IF key \in DOMAIN o.v THEN o.v[key] ELSE default

HTTP_ERROR_FROM == 400

\* lines 22-33 without the limiter: what make_request returns for what
\* requests.get answered, and the line it logs.  An answer is
\* [kind |-> "raise"] or [kind |-> "http", status, json : BOOLEAN, body]
make_request(ans) ==
  IF ans.kind = "raise"
    THEN [value |-> PyNone, log |-> << <<"An error occurred">> >>]
  ELSE IF ans.status >= HTTP_ERROR_FROM
    THEN [value |-> PyNone, log |-> << <<"HTTP error occurred">> >>]
  ELSE IF ~ans.json
    THEN [value |-> PyNone, log |-> << <<"An error occurred">> >>]
  ELSE [value |-> ans.body, log |-> <<>>]

\* line 135: link.split('authorId=')[-1]
RECURSIVE AfterLast(_, _)
AfterLast(link, sep) ==
  IF \E k \in 1..Len(link) : link[k] = sep
    THEN AfterLast(SubSeq(link, (CHOOSE k \in 1..Len(link) : link[k] = sep) + 1, Len(link)), sep)
    ELSE link
AuthorId(link) == AfterLast(link, "authorId=")

\* line 139: if start_year and end_year
DateSuffixOn(start_year, end_year) == Truthy(start_year) /\ Truthy(end_year)

\* lines 138-140
BuildQuery(author_id, start_year, end_year) ==
  <<"?query=AU-ID(">> \o author_id \o <<")">> \o
  (IF DateSuffixOn(start_year, end_year)
     THEN <<"&date=">> \o IntToText(Val(start_year)) \o <<"-">> \o IntToText(Val(end_year))
     ELSE <<>>)

\* lines 147-154
EntryRecord(entry) ==
  [title |-> JGet(entry, "dc:title", JStr(<<"No Title">>)),
   creator |-> JGet(entry, "dc:creator", JStr(<<"No Author">>)),
   publisher |-> JGet(entry, "prism:publicationName", JStr(<<"No Publisher">>)),
   date |-> JGet(entry, "prism:coverDate", JStr(<<"No Date">>)),
   doi |-> JGet(entry, "prism:doi", JStr(<<"No DOI">>)),
   citations |-> JGet(entry, "citedby-count", JStr(<<"No Data">>))]

\* line 146: what "for entry in articles" iterates over; None and a number
\* are not iterable (TypeError), a dict yields its keys, a str its characters
Iterate(articles) ==
  CASE articles.t = "arr" -> Ok(articles.v)
    [] articles.t = "obj" ->
         Ok(IF DOMAIN articles.v = {} THEN <<>>
            ELSE <<JStr(<<CHOOSE k \in DOMAIN articles.v : TRUE>>)>>)
    [] articles.t = "str" -> Ok([k \in 1..Len(articles.v) |-> JStr(<<articles.v[k]>>)])
    [] OTHER -> Raise(<<"object is not iterable">>)

\* lines 146-154: entry.get on anything but a dict raises AttributeError
RECURSIVE EntryLoop(_, _, _)
EntryLoop(items, k, acc) ==
  IF k > Len(items) THEN Ok(acc)
  ELSE IF items[k].t # "obj" THEN Raise(<<"object has no attribute 'get'">>)
  ELSE EntryLoop(items, k + 1, Append(acc, EntryRecord(items[k])))

\* the else branch answering with an error record instead of a log line
FailedFetch_ErrorRecord(author_id) ==
  [records |-> <<[error |-> <<"Failed to retrieve data for author ID: ">> \o author_id]>>,
   log |-> <<>>]

\* lines 155-156: nothing is appended, one line is logged
FailedFetch(author_id) ==
  [records |-> <<>>,
   log |-> << <<"Failed to retrieve data for author ID: ">> \o author_id >>]

\* lines 144-156 for one response: the records appended to all_data and the
\* lines logged, or the exception that leaves scopus_scrape_internal
HandleResponse(response, author_id) ==
  IF PyTruthy(response)
    THEN IF response.t # "obj" THEN Raise(<<"object has no attribute 'get'">>)
         ELSE LET sr == JGet(response, "search-results", EmptyObj)
              IN IF sr.t # "obj" THEN Raise(<<"object has no attribute 'get'">>)
                 ELSE LET it == Iterate(JGet(sr, "entry", JArr(<<>>)))
                      IN IF ~it.ok THEN it
                         ELSE LET e == EntryLoop(it.val, 1, <<>>)
                              IN IF ~e.ok THEN e
                                 ELSE Ok([records |-> e.val, log |-> <<>>])
    ELSE Ok(FailedFetch(author_id))

(***************************************************************************)
(* Inputs of the batch model                                               *)
(***************************************************************************)
MaxProfileLinks == 2
MaxScopusLinks == 2

T(c) == <<c>>

GoodDoc ==
  [name |-> Some(<<" ", "A", " ">>),
   cells |-> <<T("9"), T("2"), T("1")>>,
   graph |-> TRUE,
   bars |-> <<T("1"), T("2"), T("3"), T("4")>>,
   vals |-> <<T("5"), T("6"), T("7")>>,
   rows |-> << [anchor |-> Some([text |-> T("P"), href |-> Some(T("/c1"))]),
                cites |-> Some(T("4")), year |-> Some(T("3"))],
               [anchor |-> None, cites |-> None, year |-> Some(<<"n", "/", "a">>)],
               [anchor |-> Some([text |-> T("Q"), href |-> Some(T("/c2"))]),
                cites |-> Some(<<>>), year |-> Some(T("1"))] >>]

EmptyDoc ==
  [name |-> None, cells |-> <<>>, graph |-> FALSE, bars |-> <<>>, vals |-> <<>>,
   rows |-> <<>>]

BadChartDoc == [GoodDoc EXCEPT !.bars = <<T("1"), <<"n", "/", "a">>, T("3")>>]

RaisedResponse == [kind |-> "raise", msg |-> T("Connection aborted")]
HttpResponse(status, doc) == [kind |-> "http", status |-> status, doc |-> doc]

\* what requests.get can answer on the profile path
ProfileResponses ==
  << RaisedResponse,
     HttpResponse(404, EmptyDoc),
     HttpResponse(503, GoodDoc),
     HttpResponse(200, GoodDoc),
     HttpResponse(200, EmptyDoc),
     HttpResponse(200, BadChartDoc) >>

FullEntry ==
  JObj([k \in {"dc:title", "dc:creator", "prism:publicationName", "prism:coverDate",
               "prism:doi", "citedby-count"} |-> JStr(T(k))])
SparseEntry == JObj([k \in {"dc:title", "prism:doi"} |->
                       IF k = "dc:title" THEN JStr(T("t")) ELSE PyNone])

SearchResults(sr) == JObj([k \in {"search-results"} |-> sr])
Entries(e) == SearchResults(JObj([k \in {"entry"} |-> e]))

JsonAnswer(body) == [kind |-> "http", status |-> 200, json |-> TRUE, body |-> body]

\* what requests.get can answer on the search path
SearchAnswers ==
  << [kind |-> "raise"],
     [kind |-> "http", status |-> 404, json |-> TRUE, body |-> EmptyObj],
     [kind |-> "http", status |-> 200, json |-> FALSE, body |-> PyNone],
     JsonAnswer(Entries(JArr(<<FullEntry, SparseEntry>>))),
     JsonAnswer(Entries(JArr(<<>>))),
     JsonAnswer(SearchResults(EmptyObj)),
     JsonAnswer(JObj([k \in {"service-error"} |-> JStr(T("e"))])),
     JsonAnswer(EmptyObj),
     JsonAnswer(PyNone),
     JsonAnswer(SearchResults(PyNone)),
     JsonAnswer(Entries(PyNone)),
     JsonAnswer(Entries(JArr(<<FullEntry, JStr(T("x"))>>))),
     JsonAnswer(JArr(<<FullEntry>>)) >>

\* lines 166-197 and 202-206: the link lists, cut to the bounds
GoogleScholarLink(k) == <<"https://scholar.google.com/citations?user=">> \o IntToText(k)
ScopusLink(k) ==
  <<"https://www.scopus.com/authid/detail.uri?", "authorId=">> \o IntToText(k)

\* lines 162-163: request.args.get(..., default=None, type=int)
BatchYearArgs == {None, Some(2)}

(***************************************************************************)
(* State                                                                   *)
(***************************************************************************)
VARIABLES
  pc,             \* where combined_scrape (or the extraction harness) stands
  start_year,     \* optional integer
  end_year,       \* optional integer
  profile_links,  \* google_scholar_profile_links
  scopus_links,   \* scopus_profile_links
  data_list,      \* scraping_multiple_faculties: data_list
  all_data,       \* scopus_scrape_internal: all_data
  log,            \* lines written by logging.error
  served,         \* history: the answers requests.get gave on the profile path
  answered,       \* history: per search link, the answer and what it added
  queries,        \* history: the query strings sent to the search API
  exc,            \* the exception that left combined_scrape, if any
  input,          \* extraction harness: the document under extraction
  output,         \* extraction harness: the record and query produced
  now,            \* timing model: the monotonic clock
  limiter,        \* timing model: the state of the @limits decorator
  sent,           \* timing model: the outbound requests issued so far
  wake            \* timing model: when time.sleep of sleep_and_retry returns

vars == <<pc, start_year, end_year, profile_links, scopus_links, data_list,
          all_data, log, served, answered, queries, exc, input, output,
          now, limiter, sent, wake>>

batchVars == <<data_list, all_data, log, served, answered, queries, exc>>
harnessVars == <<input, output>>
timeVars == <<now, limiter, sent, wake>>

\* lines 19-20
CALLS_PER_SECOND == 1
SECONDS_PER_CALL == 1 \div CALLS_PER_SECOND

(***************************************************************************)
(* The batch model: combined_scrape                                        *)
(***************************************************************************)
Init ==
  /\ pc = "scholar"
  /\ start_year \in BatchYearArgs
  /\ end_year \in BatchYearArgs
  /\ \E n \in 0..MaxProfileLinks : profile_links = [k \in 1..n |-> GoogleScholarLink(k)]
  /\ \E m \in 0..MaxScopusLinks : scopus_links = [k \in 1..m |-> ScopusLink(k)]
  /\ data_list = <<>>
  /\ all_data = <<>>
  /\ log = <<>>
  /\ served = <<>>
  /\ answered = <<>>
  /\ queries = <<>>
  /\ exc = None
  /\ input = None
  /\ output = None
  /\ now = 0
  /\ limiter = [last_reset |-> 0, num_calls |-> 0]
  /\ sent = <<>>
  /\ wake = None

\* line 125: "if faculty_data" is the truth value of a dict
DictTruthy(r) == DOMAIN r # {}

\* lines 123-127: one turn of the loop of scraping_multiple_faculties
ScholarStep ==
  /\ pc = "scholar"
  /\ Len(served) < Len(profile_links)
  /\ \E k \in 1..Len(ProfileResponses) :
       LET resp == ProfileResponses[k]
           faculty_data == get_data_from_profile_link(resp, start_year, end_year)
       IN /\ served' = Append(served, resp)
          /\ data_list' = IF DictTruthy(faculty_data)
                            THEN Append(data_list, faculty_data) ELSE data_list
  /\ UNCHANGED <<pc, start_year, end_year, profile_links, scopus_links, all_data,
                 log, answered, queries, exc, harnessVars, timeVars>>

\* line 128: return data_list; line 207 enters scopus_scrape_internal
ScholarReturn ==
  /\ pc = "scholar"
  /\ Len(served) = Len(profile_links)
  /\ pc' = "scopus"
  /\ UNCHANGED <<start_year, end_year, profile_links, scopus_links, batchVars,
                 harnessVars, timeVars>>

\* lines 134-156: one turn of the loop of scopus_scrape_internal; an
\* exception of the loop body leaves the function and the route
ScopusStep ==
  /\ pc = "scopus"
  /\ Len(answered) < Len(scopus_links)
  /\ \E k \in 1..Len(SearchAnswers) :
       LET link == scopus_links[Len(answered) + 1]
           author_id == AuthorId(link)
           query == BuildQuery(author_id, start_year, end_year)
           r == make_request(SearchAnswers[k])
           h == HandleResponse(r.value, author_id)
       IN /\ queries' = Append(queries, query)
          /\ IF h.ok
               THEN /\ all_data' = all_data \o h.val.records
                    /\ log' = log \o r.log \o h.val.log
                    /\ answered' = Append(answered,
                                     [answer |-> SearchAnswers[k], value |-> r.value,
                                      added |-> Len(h.val.records), raised |-> FALSE,
                                      logged |-> r.log \o h.val.log])
                    /\ UNCHANGED <<pc, exc>>
               ELSE /\ log' = log \o r.log
                    /\ answered' = Append(answered,
                                     [answer |-> SearchAnswers[k], value |-> r.value,
                                      added |-> 0, raised |-> TRUE, logged |-> r.log])
                    /\ pc' = "raised"
                    /\ exc' = Some(h.err)
                    /\ UNCHANGED all_data
  /\ UNCHANGED <<start_year, end_year, profile_links, scopus_links, data_list,
                 served, harnessVars, timeVars>>

\* lines 158 and 209-212: return all_data; the route answers with both lists
ScopusReturn ==
  /\ pc = "scopus"
  /\ Len(answered) = Len(scopus_links)
  /\ pc' = "done"
  /\ UNCHANGED <<start_year, end_year, profile_links, scopus_links, batchVars,
                 harnessVars, timeVars>>

Next == ScholarStep \/ ScholarReturn \/ ScopusStep \/ ScopusReturn

Spec == Init /\ [][Next]_vars

(***************************************************************************)
(* Claims checked on the batch model                                       *)
(***************************************************************************)
ProfileFetchFailed(resp) == resp.kind = "raise" \/ resp.status # 200
ProfileExtractionRaises(resp) ==
  resp.kind = "http" /\ resp.status = 200 /\ resp.doc = BadChartDoc
SuccessFields == {"Name", "Citations", "H_Index", "i10_Index", "Yearly_Citations", "Papers"}

\* C1: in profile mode the returned list has one entry per input link, and
\* the i-th entry is the error record (fetch failed, status not 200, parsing
\* raised) or the success record of the i-th link.
C1_OneRecordPerProfileLink ==
  /\ Len(data_list) = Len(served)
  /\ pc # "scholar" => Len(data_list) = Len(profile_links)
  /\ \A i \in 1..Len(served) :
       /\ i <= Len(data_list)
       /\ IF ProfileFetchFailed(served[i]) \/ ProfileExtractionRaises(served[i])
            THEN DOMAIN data_list[i] = {"error"}
            ELSE DOMAIN data_list[i] = SuccessFields

C1_Witness ==
  /\ pc = "done"
  /\ Len(profile_links) = 2
  /\ served[1].kind = "raise"
  /\ ProfileExtractionRaises(served[2])
  /\ Len(data_list) = 2

\* C2: a profile fetch answered with a status s other than 200 gives the
\* record {error: "Failed to retrieve data. Status code: s"} with no other
\* field, and the loop still handles every later link.
C2_StatusErrorRecord ==
  /\ \A i \in 1..Len(served) :
       (served[i].kind = "http" /\ served[i].status # 200) =>
         /\ i <= Len(data_list)
         /\ DOMAIN data_list[i] = {"error"}
         /\ served[i].status = 404 =>
              data_list[i].error = <<"Failed to retrieve data. Status code: ", "4", "0", "4">>
         /\ served[i].status = 503 =>
              data_list[i].error = <<"Failed to retrieve data. Status code: ", "5", "0", "3">>
  /\ pc # "scholar" => Len(data_list) = Len(profile_links)

C2_Witness ==
  /\ pc = "done"
  /\ Len(profile_links) = 2
  /\ served[1].kind = "http" /\ served[1].status = 404
  /\ Len(data_list) = 2
  /\ DOMAIN data_list[2] = SuccessFields

ErrorRecordsIn(list) == {k \in 1..Len(list) : "error" \in DOMAIN list[k]}
FailedSearches == {j \in 1..Len(answered) : answered[j].value = PyNone}
FailedProfiles == {i \in 1..Len(served) : ProfileFetchFailed(served[i])}

\* C4 as stated: on both paths every identifier whose fetch fails
\* contributes exactly one error record to the batch output.
C4_Original ==
  pc = "done" =>
    /\ Cardinality(ErrorRecordsIn(all_data)) = Cardinality(FailedSearches)
    /\ \A i \in FailedProfiles : i <= Len(data_list) /\ DOMAIN data_list[i] = {"error"}

\* C4 amended: on the profile path every identifier whose fetch fails
\* contributes exactly one error record, at its own position; on the search
\* path a failed fetch (make_request returns None) contributes no record at
\* all, all_data never holds an error record, and the failure is only logged.
C4_FailedFetchRecords ==
  /\ \A i \in FailedProfiles : i <= Len(data_list) /\ DOMAIN data_list[i] = {"error"}
  /\ Len(data_list) = Len(served)
  /\ ErrorRecordsIn(all_data) = {}
  /\ \A j \in FailedSearches :
       /\ answered[j].added = 0
       /\ ~answered[j].raised
       /\ answered[j].logged[Len(answered[j].logged)]
            = <<"Failed to retrieve data for author ID: ">> \o IntToText(j)

C4_Witness ==
  /\ pc = "done"
  /\ FailedProfiles # {}
  /\ \E j \in FailedSearches : answered[j].answer.kind = "raise"
  /\ all_data # <<>>

\* C5: no error ever aborts a batch: whatever each fetch answers, both loops
\* run to the end of their list and return without raising.
C5_NoErrorAbortsBatch ==
  /\ pc # "raised"
  /\ exc = None

IsJsonObject(a) == a.kind = "http" /\ a.status = 200 /\ a.json /\ a.body.t = "obj"
LacksEntries(a) ==
  \/ "search-results" \notin DOMAIN a.body.v
  \/ /\ a.body.v["search-results"].t = "obj"
     /\ "entry" \notin DOMAIN a.body.v["search-results"].v

\* C6: a response without "search-results", or without "entry" under it,
\* the empty object included, adds no publication record and is not treated
\* as an error: nothing is raised and no failure is logged for it.
C6_MissingKeysNotAnError ==
  \A j \in 1..Len(answered) :
    (IsJsonObject(answered[j].answer) /\ LacksEntries(answered[j].answer)) =>
      /\ answered[j].added = 0
      /\ ~answered[j].raised
      /\ answered[j].logged = <<>>

(***************************************************************************)
(* The extraction model: get_data_from_profile_link and the query of       *)
(* scopus_scrape_internal applied to one request's arguments, over every   *)
(* chart and every publication table within the bounds                     *)
(***************************************************************************)
MaxBars == 2
MaxRows == 2

SeqUpTo(S, n) == UNION {[1..k -> S] : k \in 0..n}

NotANumber == <<"n", "/", "a">>
ChartLabels == {T("1"), T("2"), <<" ", "3">>, NotANumber}
ChartValues == {T("5"), T("7"), NotANumber}
RowYears == {None, Some(T("0")), Some(T("2")), Some(<<" ", "3", " ">>), Some(NotANumber)}
RowAnchors == {None, Some([text |-> T("P"), href |-> Some(T("/c"))])}

ChartDocs ==
  {[EmptyDoc EXCEPT !.graph = TRUE, !.bars = b, !.vals = v] :
     b \in SeqUpTo(ChartLabels, MaxBars), v \in SeqUpTo(ChartValues, MaxBars)}
TableDocs ==
  {[EmptyDoc EXCEPT !.rows = r] :
     r \in SeqUpTo([anchor : RowAnchors, cites : {None}, year : RowYears], MaxRows)}
HarnessDocs == ChartDocs \cup TableDocs \cup {GoodDoc, EmptyDoc}

\* lines 162-163: type=int accepts any integer, zero and negatives included
HarnessStartArgs == {None, Some(0), Some(0 - 1), Some(2)}
HarnessEndArgs == {None, Some(0), Some(2), Some(3)}

InitExtract ==
  /\ pc = "extract"
  /\ start_year \in HarnessStartArgs
  /\ end_year \in HarnessEndArgs
  /\ \E d \in HarnessDocs : input = Some(d)
  /\ output = None
  /\ profile_links = <<GoogleScholarLink(1)>>
  /\ scopus_links = <<ScopusLink(1)>>
  /\ data_list = <<>>
  /\ all_data = <<>>
  /\ log = <<>>
  /\ served = <<>>
  /\ answered = <<>>
  /\ queries = <<>>
  /\ exc = None
  /\ now = 0
  /\ limiter = [last_reset |-> 0, num_calls |-> 0]
  /\ sent = <<>>
  /\ wake = None

\* lines 124 and 135-140 for one link of each list, the profile answered
\* with status 200 and the document under extraction
Extract ==
  /\ pc = "extract"
  /\ pc' = "extracted"
  /\ output' = Some([record |-> get_data_from_profile_link(
                                  HttpResponse(200, Val(input)), start_year, end_year),
                     query |-> BuildQuery(AuthorId(scopus_links[1]), start_year, end_year)])
  /\ UNCHANGED <<start_year, end_year, profile_links, scopus_links, batchVars,
                 input, timeVars>>

NextExtract == Extract

SpecExtract == InitExtract /\ [][NextExtract]_vars

(***************************************************************************)
(* Claims checked on the extraction model                                  *)
(***************************************************************************)
Extracted == pc = "extracted"
Doc == Val(input)
Rec == Val(output).record
IsSuccess(r) == DOMAIN r = SuccessFields

\* both bounds given and neither of them 0
RangeGiven ==
  /\ start_year # None /\ end_year # None
  /\ start_year[1] # 0 /\ end_year[1] # 0
Between(y) == start_year[1] <= y /\ y <= end_year[1]

\* the integer a sample text stands for (None: not an integer)
Reading(text) ==
  CASE text = T("0") -> Some(0)
    [] text = T("1") -> Some(1)
    [] text = T("2") -> Some(2)
    [] text \in {<<" ", "3">>, <<" ", "3", " ">>, T("3")} -> Some(3)
    [] text = T("4") -> Some(4)
    [] text = T("5") -> Some(5)
    [] text = T("6") -> Some(6)
    [] text = T("7") -> Some(7)
    [] OTHER -> None
Written(y) == T(CASE y = 1 -> "1" [] y = 2 -> "2" [] y = 3 -> "3" [] y = 4 -> "4"
                  [] OTHER -> "?")

Pairs == 1..(IF Len(Doc.bars) <= Len(Doc.vals) THEN Len(Doc.bars) ELSE Len(Doc.vals))
PairYear(i) == Reading(Doc.bars[i])[1]
PairCount(i) == Reading(Doc.vals[i])[1]
PairKept(i) == RangeGiven => Between(PairYear(i))
ChartWellFormed ==
  \A i \in Pairs : Reading(Doc.bars[i]) # None /\ Reading(Doc.vals[i]) # None

RowYear(i) == IF Doc.rows[i].year = None THEN None ELSE Reading(Doc.rows[i].year[1])
RowKept(i) == RangeGiven => (RowYear(i) # None /\ Between(RowYear(i)[1]))
KeptRows == {i \in 1..Len(Doc.rows) : RowKept(i)}

\* C8: a row whose year text is not all digits gets year = null; without a
\* range every row is in Papers, in document order; with a range a row is in
\* Papers if and only if its year is set and start_year <= year <= end_year.
C8_PapersByYear ==
  (Extracted /\ IsSuccess(Rec)) =>
    /\ Len(Rec.Papers) = Cardinality(KeptRows)
    /\ \A k \in 1..Len(Rec.Papers) :
         LET i == CHOOSE i \in KeptRows : Cardinality({h \in KeptRows : h <= i}) = k
         IN /\ Rec.Papers[k].year = RowYear(i)
            /\ Rec.Papers[k].title = (IF Doc.rows[i].anchor = None THEN T("No Title")
                                      ELSE Doc.rows[i].anchor[1].text)

\* C9: a chart pair of which either text is not an integer is skipped: the
\* well-formed pairs are still recorded and the profile still gives a normal
\* record, not an error record.
C9_BadPairSkipped ==
  (Extracted /\ Doc.graph /\ ~ChartWellFormed) =>
    /\ IsSuccess(Rec)
    /\ \A i \in Pairs :
         (Reading(Doc.bars[i]) # None /\ Reading(Doc.vals[i]) # None /\ PairKept(i)) =>
           \E k \in 1..Len(Rec.Yearly_Citations) :
             Rec.Yearly_Citations[k][1] = Written(PairYear(i))

HasDateSuffix(q) == \E k \in 1..Len(q) : q[k] = "&date="

\* C10: the yearly-citation filter, the publication filter and the "&date="
\* suffix of the search query are each applied if and only if start_year and
\* end_year are both given and both non-zero, so the three agree.
C10_RangeAllOrNothing ==
  Extracted =>
    /\ HasDateSuffix(Val(output).query) <=> RangeGiven
    /\ RangeGiven =>
         Val(output).query = <<"?query=AU-ID(", "1", ")", "&date=">>
                               \o (IF start_year[1] < 0 THEN <<"-", "1">>
                                   ELSE Written(start_year[1]))
                               \o <<"-">> \o Written(end_year[1])
    /\ (IsSuccess(Rec) /\ RangeGiven) =>
         /\ \A k \in 1..Len(Rec.Yearly_Citations) :
              \E y \in 1..4 : Rec.Yearly_Citations[k][1] = Written(y) /\ Between(y)
         /\ \A k \in 1..Len(Rec.Papers) :
              Rec.Papers[k].year # None /\ Between(Rec.Papers[k].year[1])
    /\ (IsSuccess(Rec) /\ ~RangeGiven) =>
         /\ \A i \in Pairs : \E k \in 1..Len(Rec.Yearly_Citations) :
              Rec.Yearly_Citations[k][1] = Written(PairYear(i))
         /\ Len(Rec.Papers) = Len(Doc.rows)

C10_Witness ==
  /\ Extracted
  /\ start_year = Some(0) /\ end_year = Some(2)
  /\ IsSuccess(Rec)
  /\ Doc.bars = <<T("1"), <<" ", "3">>>> /\ Doc.vals = <<T("5"), T("7")>>
  /\ Len(Rec.Yearly_Citations) = 2
  /\ ~HasDateSuffix(Val(output).query)

(***************************************************************************)
(* The timing model: when combined_scrape issues its outbound requests.    *)
(* The clock counts ticks; the limiter is the state of the decorator       *)
(* @limits(calls=CALLS_PER_SECOND, period=SECONDS_PER_CALL) built when the *)
(* module is imported (at tick 0), retried by @sleep_and_retry.            *)
(***************************************************************************)
TicksPerSecond == 2
MaxTime == 6

Period == SECONDS_PER_CALL * TicksPerSecond

\* the limiter letting every call start a new window
PeriodRemaining_Elapsed(l, t) == 0

\* @limits: period - (clock() - last_reset)
PeriodRemaining(l, t) == Period - (t - l.last_reset)

\* @limits: the window is renewed once it has elapsed, the call is counted
Counted(l, t) ==
  IF PeriodRemaining(l, t) <= 0
    THEN [last_reset |-> t, num_calls |-> 1]
    ELSE [l EXCEPT !.num_calls = @ + 1]

\* @limits: a call beyond calls=CALLS_PER_SECOND raises RateLimitException
OverLimit(l) == l.num_calls > CALLS_PER_SECOND

ProfileSent == {k \in 1..Len(sent) : sent[k].path = "profile"}
SearchSent == {k \in 1..Len(sent) : sent[k].path = "search"}

InitRate ==
  /\ pc = "scholar"
  /\ start_year = None
  /\ end_year = None
  /\ \E n \in 0..MaxProfileLinks : profile_links = [k \in 1..n |-> GoogleScholarLink(k)]
  /\ \E m \in 0..MaxScopusLinks : scopus_links = [k \in 1..m |-> ScopusLink(k)]
  /\ data_list = <<>>
  /\ all_data = <<>>
  /\ log = <<>>
  /\ served = <<>>
  /\ answered = <<>>
  /\ queries = <<>>
  /\ exc = None
  /\ input = None
  /\ output = None
  /\ now = 0
  /\ limiter = [last_reset |-> 0, num_calls |-> 0]
  /\ sent = <<>>
  /\ wake = None

\* time passes: before the route is called, while a request is in flight,
\* during a sleep
Tick ==
  /\ now < MaxTime
  /\ now' = now + 1
  /\ UNCHANGED <<pc, start_year, end_year, profile_links, scopus_links, batchVars,
                 harnessVars, limiter, sent, wake>>

\* line 45: requests.get on the profile path, not passing the limiter
ProfileRequest ==
  /\ pc = "scholar"
  /\ Cardinality(ProfileSent) < Len(profile_links)
  /\ sent' = Append(sent, [path |-> "profile", at |-> now, opened |-> FALSE])
  /\ UNCHANGED <<pc, start_year, end_year, profile_links, scopus_links, batchVars,
                 harnessVars, now, limiter, wake>>

\* line 128, then line 207
ProfilesDone ==
  /\ pc = "scholar"
  /\ Cardinality(ProfileSent) = Len(profile_links)
  /\ pc' = "scopus"
  /\ UNCHANGED <<start_year, end_year, profile_links, scopus_links, batchVars,
                 harnessVars, timeVars>>

\* lines 22-26 and 142: a call of make_request passes the limiter and issues
\* requests.get, or is over the limit and sleeps for the rest of the window
SearchRequest ==
  /\ pc = "scopus"
  /\ Cardinality(SearchSent) < Len(scopus_links)
  /\ limiter' = Counted(limiter, now)
  /\ IF OverLimit(limiter')
       THEN /\ pc' = "sleeping"
            /\ wake' = Some(now + PeriodRemaining(limiter, now))
            /\ UNCHANGED sent
       ELSE /\ sent' = Append(sent, [path |-> "search", at |-> now,
                                     opened |-> PeriodRemaining(limiter, now) <= 0])
            /\ UNCHANGED <<pc, wake>>
  /\ UNCHANGED <<start_year, end_year, profile_links, scopus_links, batchVars,
                 harnessVars, now>>

\* @sleep_and_retry: time.sleep(period_remaining) returns, the call is retried
WakeUp ==
  /\ pc = "sleeping"
  /\ now >= Val(wake)
  /\ pc' = "scopus"
  /\ wake' = None
  /\ UNCHANGED <<start_year, end_year, profile_links, scopus_links, batchVars,
                 harnessVars, now, limiter, sent>>

\* line 158
SearchesDone ==
  /\ pc = "scopus"
  /\ Cardinality(SearchSent) = Len(scopus_links)
  /\ pc' = "done"
  /\ UNCHANGED <<start_year, end_year, profile_links, scopus_links, batchVars,
                 harnessVars, timeVars>>

NextRate ==
  Tick \/ ProfileRequest \/ ProfilesDone \/ SearchRequest \/ WakeUp \/ SearchesDone

SpecRate == InitRate /\ [][NextRate]_vars

(***************************************************************************)
(* Claims checked on the timing model                                      *)
(***************************************************************************)
\* C3 as stated: any two outbound requests, from the search path or the
\* profile path, are issued at least one interval apart.
C3_Original ==
  \A a, b \in 1..Len(sent) : a < b => sent[b].at - sent[a].at >= Period

\* C3 amended: only make_request (the search path) passes the limiter.  A
\* search call that arrives in a window already used sleeps until the window
\* ends; two search requests are at least one interval apart once the earlier
\* one opened its window, and only the first search request after start-up
\* can fall into the window opened at import, in which case the next one
\* waits for the end of that window.  Profile requests are not delayed.
C3_SearchRequestsSpaced ==
  /\ \A a, b \in SearchSent :
       a < b => /\ sent[b].opened
                /\ sent[a].opened => sent[b].at - sent[a].at >= Period
                /\ ~sent[a].opened => (sent[a].at < Period /\ sent[b].at >= Period)
  /\ pc = "sleeping" => (wake # None /\ wake[1] = limiter.last_reset + Period)

C3_Witness ==
  /\ pc = "done"
  /\ Len(sent) = 4
  /\ sent[1].path = "profile" /\ sent[2].path = "profile"
  /\ sent[2].at = sent[1].at
  /\ sent[3].path = "search" /\ sent[3].opened
  /\ sent[4].path = "search"
  /\ sent[4].at = sent[3].at + Period

====
